---- MODULE Spec2Model ----
(***************************************************************************)
(* Model of the route planner: routes.py (distance table and Held-Karp    *)
(* path solver) and modes.py (per-leg mode evaluation, single-key and     *)
(* TOPSIS ranking, generation of the three alternatives).                 *)
(*                                                                         *)
(* Two specifications share the variables:                                *)
(*   SpecRoutes  calculate_symmetric_distances, then find_shortest_route, *)
(*               or a direct call of calculate_distance                   *)
(*   SpecModes   calculate_route_preferences on a path, a table, a        *)
(*               catalog and a preference, then summarize_alternatives;   *)
(*               or a call of calculate_mode_details, topsis_evaluation   *)
(*   SpecPlanner an input handler asks for the preference, then           *)
(*               calculate_route_preferences runs on what it returned     *)
(***************************************************************************)
EXTENDS Integers, Sequences, FiniteSets, TLC

VARIABLES
    pc,                \* position of the run
    tarjan_home,       \* origin record
    relatives,         \* destination records, in input order
    geodesic,          \* the geopy primitive: km per coordinate pair, or Fail
    distances,         \* the distance table, keyed by <<name, name>>
    shortest_route,    \* result of find_shortest_route
    dp,                \* dp[i][mask] of find_shortest_route
    parent,            \* parent[i][mask] of find_shortest_route
    route,             \* path handed to calculate_route_preferences
    transport_modes,   \* mode catalog
    preference,        \* criterion string
    route_alternatives,\* result of calculate_route_preferences
    error,             \* exception raised by calculate_route_preferences
    leg_distance,      \* distance handed to calculate_mode_details
    details_result,    \* outcome of calculate_mode_details
    distance_query,    \* a direct call of calculate_distance and its result
    topsis_result,     \* a direct call of topsis_evaluation and its outcome
    summary_result     \* outcome of summarize_alternatives

vars == <<pc, tarjan_home, relatives, geodesic, distances, shortest_route,
          dp, parent, route, transport_modes, preference,
          route_alternatives, error, leg_distance, details_result,
          distance_query, topsis_result, summary_result>>

----------------------------------------------------------------------------
\* Bounds of the model

\* largest number of destinations
MaxDest == 3

\* float('inf'): larger than every finite length the model can form
Inf == 1000000

\* kilometres the geodesic primitive can return for two distinct points
KmValues == {1, 2}

\* outcome of the primitive when it raises
Fail == -1

----------------------------------------------------------------------------
\* Float arithmetic on values that may be +infinity

Add(a, b) == IF a = Inf \/ b = Inf THEN Inf ELSE a + b

Less(a, b) == a # Inf /\ (b = Inf \/ a < b)

----------------------------------------------------------------------------
\* routes.py

Home == [name |-> "Home", latitude |-> 0, longitude |-> 0]

\* destination names, pairwise distinct and distinct from the origin's
RelativeNames == <<"R1", "R2", "R3", "R4", "R5">>

Relative(i) == [name |-> RelativeNames[i], latitude |-> i, longitude |-> i]

Point(loc) == <<loc.latitude, loc.longitude>>

\* unordered pairs of distinct points among the origin and n destinations
PointPairs(n) ==
    {pp \in {<<<<a, a>>, <<b, b>>>> : a \in 0..n, b \in 0..n} : pp[1][1] < pp[2][1]}

\* a point paired with itself, as in calculate_distance(p, p)
SamePoint(n) == {<<<<a, a>>, <<a, a>>>> : a \in 0..n}

\* the pairs for which the primitive raises: none, one pair of distinct points,
\* or every pair holding one malformed coordinate (that point paired with
\* itself included: the primitive rejects the coordinate whatever the other is)
FailSets(n) ==
    {{}} \cup {{pp} : pp \in PointPairs(n)}
         \cup {{pp \in PointPairs(n) \cup SamePoint(n) : pp[1][1] = i \/ pp[2][1] = i} : i \in 0..n}

PairKey(p1, p2) == IF p1[1] <= p2[1] THEN <<p1, p2>> ELSE <<p2, p1>>

ReturnsZeroOnError(point1, point2) ==
    LET km == geodesic[PairKey(point1, point2)]
    IN  IF km = Fail THEN 0 ELSE km

ReturnsFailureCode(point1, point2) == geodesic[PairKey(point1, point2)]

\* calculate_distance: the primitive's value, +infinity when it raises
calculate_distance(point1, point2) ==
    LET km == geodesic[PairKey(point1, point2)]
    IN  IF km = Fail THEN Inf ELSE km

\* d[k] = v of a Python dict
Put(d, k, v) == [x \in (DOMAIN d) \cup {k} |-> IF x = k THEN v ELSE d[x]]

\* list(combinations(range(1, n+1), 2)) in itertools order
Combinations2(n) ==
    LET Row(i) == [j \in 1..(n - i) |-> <<i, i + j>>]
        RECURSIVE Rows(_)
        Rows(i) == IF i >= n THEN <<>> ELSE Row(i) \o Rows(i + 1)
    IN  Rows(1)

\* the first loop of calculate_symmetric_distances, from pair k on
RECURSIVE RelativesLoopFrom(_, _, _, _)
RelativesLoopFrom(d, rels, pairs, k) ==
    IF k > Len(pairs) THEN d
    ELSE LET rel1 == rels[pairs[k][1]]
             rel2 == rels[pairs[k][2]]
             distance == calculate_distance(Point(rel1), Point(rel2))
             d1 == Put(d, <<rel1.name, rel2.name>>, distance)
             d2 == Put(d1, <<rel2.name, rel1.name>>, distance)
         IN  RelativesLoopFrom(d2, rels, pairs, k + 1)

HomeStoreReverseDropped(d, home, relative, distance_to_home) ==
    Put(d, <<home.name, relative.name>>, distance_to_home)

\* the two stores of the second loop
HomeStore(d, home, relative, distance_to_home) ==
    Put(Put(d, <<home.name, relative.name>>, distance_to_home),
        <<relative.name, home.name>>, distance_to_home)

\* the second loop of calculate_symmetric_distances, from relative k on
RECURSIVE HomeLoopFrom(_, _, _, _)
HomeLoopFrom(d, rels, home, k) ==
    IF k > Len(rels) THEN d
    ELSE LET relative == rels[k]
             distance_to_home == calculate_distance(Point(home), Point(relative))
         IN  HomeLoopFrom(HomeStore(d, home, relative, distance_to_home), rels, home, k + 1)

EmptyDict == [x \in {} |-> 0]

\* shortest_route before find_shortest_route has run
NoResult == [route |-> <<>>, distance |-> 0]

\* distance_query before calculate_distance has been called directly
NoQuery == [point1 |-> <<0, 0>>, point2 |-> <<0, 0>>, distance |-> 0]

\* topsis_result before topsis_evaluation has been called directly
NoTopsis == [error |-> "none", weights |-> <<0, 0>>, mode_details |-> <<>>,
             topsis_scores |-> <<>>, top |-> 0]

\* summary_result before summarize_alternatives has run
NoSummary == [error |-> "none", summaries |-> <<>>]

calculate_symmetric_distances(rels, home) ==
    HomeLoopFrom(RelativesLoopFrom(EmptyDict, rels, Combinations2(Len(rels)), 1),
                 rels, home, 1)

----------------------------------------------------------------------------
\* find_shortest_route

\* 1 << i
Pow2(i) == 2 ^ i

\* mask & (1 << i)
Bit(mask, i) == (mask \div Pow2(i)) % 2 = 1

\* mask | (1 << i)
BitOr(mask, i) == IF Bit(mask, i) THEN mask ELSE mask + Pow2(i)

\* mask ^ (1 << i)
BitXor(mask, i) == IF Bit(mask, i) THEN mask - Pow2(i) ELSE mask + Pow2(i)

\* the tables as allocated: dp all +infinity, parent all -1
NewTables(n) ==
    [dp |-> [i \in 0..(n - 1) |-> [mask \in 0..(Pow2(n) - 1) |-> Inf]],
     parent |-> [i \in 0..(n - 1) |-> [mask \in 0..(Pow2(n) - 1) |-> -1]]]

\* the loop that seeds dp[i][1 << i], from i on
RECURSIVE BaseLoopFrom(_, _, _, _, _)
BaseLoopFrom(t, names, d, home_name, i) ==
    IF i >= Len(names) THEN t
    ELSE BaseLoopFrom([t EXCEPT !.dp[i][Pow2(i)] = d[<<home_name, names[i + 1]>>]],
                      names, d, home_name, i + 1)

ImprovesWhenLarger(new_distance, old_distance) == Less(old_distance, new_distance)

\* new_distance < dp[v][new_mask]
Improves(new_distance, old_distance) == Less(new_distance, old_distance)

\* the two guards and the comparison of the innermost DP loop for (mask, u, v)
Relaxes(t, names, d, mask, u, v) ==
    /\ Bit(mask, u)
    /\ ~Bit(mask, v)
    /\ Improves(Add(t.dp[u][mask], d[<<names[u + 1], names[v + 1]>>]), t.dp[v][BitOr(mask, v)])

RelaxWithoutParent(t, names, d, mask, u, v) ==
    [dp |-> [t.dp EXCEPT ![v][BitOr(mask, v)] = Add(t.dp[u][mask], d[<<names[u + 1], names[v + 1]>>])],
     parent |-> t.parent]

\* the two assignments made when the comparison succeeds
Relax(t, names, d, mask, u, v) ==
    LET new_mask == BitOr(mask, v)
        new_distance == Add(t.dp[u][mask], d[<<names[u + 1], names[v + 1]>>])
    IN  [dp |-> [t.dp EXCEPT ![v][new_mask] = new_distance],
         parent |-> [t.parent EXCEPT ![v][new_mask] = u]]

\* for v in range(n), from v on, inside one (mask, u); the table after each
\* iteration is bound as a value (t2) before the next iteration runs
RECURSIVE VLoopFrom(_, _, _, _, _, _)
VLoopFrom(t, names, d, mask, u, v) ==
    IF v >= Len(names) THEN t
    ELSE CHOOSE r \in {VLoopFrom(t2, names, d, mask, u, v + 1) :
                       t2 \in {IF Relaxes(t, names, d, mask, u, v)
                               THEN Relax(t, names, d, mask, u, v)
                               ELSE t}} : TRUE

\* for u in range(n), from u on, inside one mask
RECURSIVE ULoopFrom(_, _, _, _, _)
ULoopFrom(t, names, d, mask, u) ==
    IF u >= Len(names) THEN t
    ELSE CHOOSE r \in {ULoopFrom(t2, names, d, mask, u + 1) :
                       t2 \in {VLoopFrom(t, names, d, mask, u, 0)}} : TRUE

\* for mask in range(1, 1 << n), from mask on
RECURSIVE MaskLoopFrom(_, _, _, _)
MaskLoopFrom(t, names, d, mask) ==
    IF mask >= Pow2(Len(names)) THEN t
    ELSE CHOOSE r \in {MaskLoopFrom(t2, names, d, mask + 1) :
                       t2 \in {ULoopFrom(t, names, d, mask, 0)}} : TRUE

\* the loop choosing the last node, from i on; s = [min_distance, last_node]
RECURSIVE LastLoopFrom(_, _, _, _)
LastLoopFrom(s, t, n, i) ==
    IF i >= n THEN s
    ELSE LastLoopFrom(IF Less(t.dp[i][Pow2(n) - 1], s.min_distance)
                      THEN [min_distance |-> t.dp[i][Pow2(n) - 1], last_node |-> i]
                      ELSE s,
                      t, n, i + 1)

\* the while loop following the parent links; acc is route as appended so far
RECURSIVE WalkBack(_, _, _, _, _)
WalkBack(acc, t, names, last_node, mask) ==
    IF last_node = -1 THEN acc
    ELSE WalkBack(Append(acc, names[last_node + 1]), t, names,
                  t.parent[last_node][mask], BitXor(mask, last_node))

Reverse(s) == [i \in 1..Len(s) |-> s[Len(s) + 1 - i]]

\* the tables when the DP loops have finished (empty below two destinations)
RouteTables(rels, d, home_name) ==
    IF Len(rels) < 2 THEN NewTables(0)
    ELSE LET names == [i \in 1..Len(rels) |-> rels[i].name]
         IN  MaskLoopFrom(BaseLoopFrom(NewTables(Len(rels)), names, d, home_name, 0),
                          names, d, 1)

NoRelativesResultWithOrigin == [route |-> <<"Home">>, distance |-> 0]

\* the result for an empty list of relatives
NoRelativesResult == [route |-> <<>>, distance |-> 0]

SingleRelativeOneWay(d, home_name, relative) == d[<<home_name, relative.name>>]

\* the distance reported for a single relative: there and back
SingleRelativeDistance(d, home_name, relative) ==
    Add(d[<<home_name, relative.name>>], d[<<relative.name, home_name>>])

find_round_trip(rels, d, home_name, t) ==
    IF Len(rels) = 0 THEN NoRelativesResult
    ELSE IF Len(rels) = 1
    THEN [route |-> <<home_name, rels[1].name>>,
          distance |-> SingleRelativeDistance(d, home_name, rels[1])]
    ELSE LET names == [i \in 1..Len(rels) |-> rels[i].name]
             n == Len(names)
             s == LastLoopFrom([min_distance |-> Inf, last_node |-> -1], t, n, 0)
             back == WalkBack(<<>>, t, names, s.last_node, Pow2(n) - 1)
         IN  [route |-> <<home_name>> \o Reverse(back) \o <<home_name>>,
              distance |-> IF s.last_node = -1 THEN s.min_distance
                           ELSE Add(s.min_distance, d[<<names[s.last_node + 1], home_name>>])]

find_shortest_route(rels, d, home_name, t) ==
    IF Len(rels) = 0 THEN NoRelativesResult
    ELSE IF Len(rels) = 1
    THEN [route |-> <<home_name, rels[1].name>>,
          distance |-> SingleRelativeDistance(d, home_name, rels[1])]
    ELSE LET names == [i \in 1..Len(rels) |-> rels[i].name]
             n == Len(names)
             s == LastLoopFrom([min_distance |-> Inf, last_node |-> -1], t, n, 0)
             back == WalkBack(<<>>, t, names, s.last_node, Pow2(n) - 1)
         IN  [route |-> <<home_name>> \o Reverse(back), distance |-> s.min_distance]

----------------------------------------------------------------------------
\* modes.py: calculate_mode_details

\* the catalog records the model draws from: the four modes of the test
\* fixture, and three records that each lack one key
Bus == [mode |-> "Bus", speed_kmh |-> 40, cost_per_km |-> 2, transfer_time_min |-> 5]
Train == [mode |-> "Train", speed_kmh |-> 80, cost_per_km |-> 5, transfer_time_min |-> 2]
Walking == [mode |-> "Walking", speed_kmh |-> 5, cost_per_km |-> 0, transfer_time_min |-> 0]
Bicycle == [mode |-> "Bicycle", speed_kmh |-> 15, cost_per_km |-> 0, transfer_time_min |-> 1]
BusNoTransfer == [mode |-> "Bus", speed_kmh |-> 40, cost_per_km |-> 2]
TrainNoSpeed == [mode |-> "Train", cost_per_km |-> 5, transfer_time_min |-> 2]
BicycleNoCost == [mode |-> "Bicycle", speed_kmh |-> 15, transfer_time_min |-> 1]

ModePool == {Bus, Train, Walking, Bicycle, BusNoTransfer, TrainNoSpeed, BicycleNoCost}

\* leg lengths in km; with the pool's speeds every travel time is a whole
\* number of minutes, so (distance / speed) * 60 is exact
LegKm == {20, 40}

\* details_result before calculate_mode_details has run
NoDetails == [error |-> "none", mode_details |-> <<>>]

\* the keys calculate_mode_details reads from a mode record
HasKeys(mode) == {"speed_kmh", "transfer_time_min", "cost_per_km", "mode"} \subseteq DOMAIN mode

TotalTimeWithoutTransfer(travel_time, transfer_time) == travel_time

\* total_time = travel_time + transfer_time
TotalTime(travel_time, transfer_time) == travel_time + transfer_time

\* the dict appended for one mode
ModeDetail(distance, mode) ==
    LET travel_time == (distance * 60) \div mode.speed_kmh
        transfer_time == mode.transfer_time_min
    IN  [mode |-> mode.mode,
         travel_time |-> travel_time,
         transfer_time |-> transfer_time,
         total_time |-> TotalTime(travel_time, transfer_time),
         cost |-> distance * mode.cost_per_km]

SkipsBadRecords(distance, modes) ==
    LET good == SelectSeq(modes, HasKeys)
    IN  [error |-> "none", mode_details |-> [k \in 1..Len(good) |-> ModeDetail(distance, good[k])]]

\* calculate_mode_details: the evaluations in catalog order, or the KeyError of
\* the first record that lacks a key (nothing is returned then)
calculate_mode_details(distance, modes) ==
    IF \E k \in 1..Len(modes) : ~HasKeys(modes[k])
    THEN [error |-> "KeyError", mode_details |-> <<>>]
    ELSE [error |-> "none", mode_details |-> [k \in 1..Len(modes) |-> ModeDetail(distance, modes[k])]]

----------------------------------------------------------------------------
\* modes.py: generate_single_route

\* tuple comparison of the sort keys: (a1, a2) < (b1, b2)
KeyLess(a1, a2, b1, b2) == a1 < b1 \/ (a1 = b1 /\ a2 < b2)

\* x sorts before y under the preference's key
Before(x, y, pref) ==
    IF pref = "least_time"
    THEN KeyLess(x.total_time, x.cost, y.total_time, y.cost)
    ELSE KeyLess(x.cost, x.total_time, y.cost, y.total_time)

\* sorted(mode_details, key=...): ascending and stable, so entry k moves to
\* the position counting the entries before it and the equal ones left of it
Sorted(mode_details, pref) ==
    LET m == Len(mode_details)
        Pos(k) == 1 + Cardinality({l \in 1..m :
                        \/ Before(mode_details[l], mode_details[k], pref)
                        \/ (l < k /\ ~Before(mode_details[k], mode_details[l], pref))})
    IN  [q \in 1..m |-> mode_details[CHOOSE k \in 1..m : Pos(k) = q]]

PickAlwaysFirst(sorted_modes, i) == sorted_modes[1]

\* sorted_modes[i] if i < len(sorted_modes) else sorted_modes[-1] (i from 0)
PickRank(sorted_modes, i) ==
    IF i < Len(sorted_modes) THEN sorted_modes[i + 1] ELSE sorted_modes[Len(sorted_modes)]

SegmentReversed(from_node, to_node, distance, best_mode) ==
    [from |-> to_node, to |-> from_node, distance |-> distance, selected_mode |-> best_mode]

\* the dict appended to route_segments
Segment(from_node, to_node, distance, best_mode) ==
    [from |-> from_node, to |-> to_node, distance |-> distance, selected_mode |-> best_mode]

\* the exception the body of the leg loop raises for leg j (from 1), or "none":
\* the table lookup, then calculate_mode_details, then the pick from an empty list
SingleLegError(rt, d, modes, j) ==
    IF <<rt[j], rt[j + 1]>> \notin DOMAIN d THEN "KeyError"
    ELSE IF calculate_mode_details(d[<<rt[j], rt[j + 1]>>], modes).error # "none" THEN "KeyError"
    ELSE IF Len(modes) = 0 THEN "IndexError"
    ELSE "none"

\* the first exception of a pass over the legs, or "none"
FirstError(legErrors) ==
    IF \A j \in 1..Len(legErrors) : legErrors[j] = "none" THEN "none"
    ELSE legErrors[CHOOSE j \in 1..Len(legErrors) :
                     /\ legErrors[j] # "none"
                     /\ \A l \in 1..(j - 1) : legErrors[l] = "none"]

\* number of legs of a path: range(len(route) - 1)
Legs(rt) == IF Len(rt) = 0 THEN 0 ELSE Len(rt) - 1

\* route_segments of alternative i (from 0)
SingleSegments(rt, d, modes, pref, i) ==
    [j \in 1..Legs(rt) |->
        LET distance == d[<<rt[j], rt[j + 1]>>]
            mode_details == calculate_mode_details(distance, modes).mode_details
        IN  Segment(rt[j], rt[j + 1], distance, PickRank(Sorted(mode_details, pref), i))]

RankCountFour == 3 + 1

\* range(3): the number of alternatives generated
RankCount == 3

ReturnsNothingOnError(rt, d, modes, pref) ==
    LET err == FirstError([j \in 1..Legs(rt) |-> SingleLegError(rt, d, modes, j)])
    IN  IF err # "none" THEN [error |-> "none", alternatives |-> <<>>]
        ELSE [error |-> "none",
              alternatives |-> [i \in 1..RankCount |-> SingleSegments(rt, d, modes, pref, i - 1)]]

generate_single_route(rt, d, modes, pref) ==
    LET err == FirstError([j \in 1..Legs(rt) |-> SingleLegError(rt, d, modes, j)])
    IN  IF err # "none" THEN [error |-> err, alternatives |-> <<>>]
        ELSE [error |-> "none",
              alternatives |-> [i \in 1..RankCount |-> SingleSegments(rt, d, modes, pref, i - 1)]]

----------------------------------------------------------------------------
\* modes.py: topsis_evaluation, in fixed point. Normalised and weighted
\* values are held in units of 1/100000, weights in percent, scores in units
\* of 1/100000; NaN stands for the float NaN of a 0/0 column.

NaN == -2

\* floor of the square root, by bisection on [lo, hi)
RECURSIVE SqrtBetween(_, _, _)
SqrtBetween(x, lo, hi) ==
    IF hi - lo <= 1 THEN lo
    ELSE LET mid == (lo + hi) \div 2
         IN  IF mid * mid <= x THEN SqrtBetween(x, mid, hi) ELSE SqrtBetween(x, lo, mid)

ISqrt(x) == SqrtBetween(x, 0, 46341)

RECURSIVE SumSquares(_, _)
SumSquares(column, k) ==
    IF k = 0 THEN 0 ELSE column[k] * column[k] + SumSquares(column, k - 1)

\* column / sqrt(sum(column ** 2)) * weight; NaN throughout for a zero column
Weighted(column, weight) ==
    LET norm10 == ISqrt(100 * SumSquares(column, Len(column)))
    IN  [k \in 1..Len(column) |->
            IF norm10 = 0 THEN NaN
            ELSE (((column[k] * 100000) \div norm10) * weight) \div 100]

Min(S) == CHOOSE x \in S : \A y \in S : x <= y

Max(S) == CHOOSE x \in S : \A y \in S : y <= x

Range(f) == {f[k] : k \in DOMAIN f}

\* sqrt((wt - pt) ** 2 + (wc - pc) ** 2)
Euclid(wt, wc, pt, pc2) == ISqrt((wt - pt) * (wt - pt) + (wc - pc2) * (wc - pc2))

ClosenessWithoutEpsilon(to_ideal, to_anti) ==
    IF to_ideal + to_anti = 0 THEN NaN
    ELSE (to_anti * 100000) \div (to_ideal + to_anti)

\* distances_to_anti_ideal / (distances_to_ideal + distances_to_anti_ideal + 1e-6);
\* 1e-6 is below the resolution and only decides 0 / (0 + 0 + 1e-6) = 0
Closeness(to_ideal, to_anti) ==
    IF to_ideal + to_anti = 0 THEN 0
    ELSE (to_anti * 100000) \div (to_ideal + to_anti)

\* topsis_scores
TopsisScores(mode_details, time_weight, cost_weight) ==
    LET m == Len(mode_details)
        weighted_times == Weighted([k \in 1..m |-> mode_details[k].total_time], time_weight)
        weighted_costs == Weighted([k \in 1..m |-> mode_details[k].cost], cost_weight)
        isNaN == \E k \in 1..m : weighted_times[k] = NaN \/ weighted_costs[k] = NaN
        ideal == <<Min(Range(weighted_times)), Min(Range(weighted_costs))>>
        anti == <<Max(Range(weighted_times)), Max(Range(weighted_costs))>>
        ToIdeal(k) == Euclid(weighted_times[k], weighted_costs[k], ideal[1], ideal[2])
        ToAnti(k) == Euclid(weighted_times[k], weighted_costs[k], anti[1], anti[2])
    IN  [k \in 1..m |->
            IF isNaN THEN NaN
            ELSE Closeness(ToIdeal(k), ToAnti(k))]

\* the indices np.argsort(topsis_scores)[::-1] can put first: a largest score;
\* argsort's default kind is not stable, so any of several equal scores (NaN
\* compares equal to NaN and sorts last) can come first
TopIndices(mode_details, time_weight, cost_weight) ==
    LET scores == TopsisScores(mode_details, time_weight, cost_weight)
        m == Len(mode_details)
    IN  IF \E k \in 1..m : scores[k] = NaN THEN {k \in 1..m : scores[k] = NaN}
        ELSE {k \in 1..m : \A l \in 1..m : scores[l] <= scores[k]}

\* the outcomes of topsis_evaluation: np.min of an empty array raises; else
\* the scores and top_modes[0], the candidate at an index argsort can put first
topsis_evaluation(mode_details, time_weight, cost_weight) ==
    IF Len(mode_details) = 0
    THEN {[error |-> "ValueError: zero-size array", weights |-> <<time_weight, cost_weight>>,
           mode_details |-> mode_details, topsis_scores |-> <<>>, top |-> 0]}
    ELSE {[error |-> "none", weights |-> <<time_weight, cost_weight>>,
           mode_details |-> mode_details,
           topsis_scores |-> TopsisScores(mode_details, time_weight, cost_weight),
           top |-> k] : k \in TopIndices(mode_details, time_weight, cost_weight)}

----------------------------------------------------------------------------
\* modes.py: calculate_balanced_route

weight_combinations == <<<<75, 25>>, <<80, 20>>, <<85, 15>>>>

\* the exception the body of the leg loop raises for leg j, or "none": the
\* table lookup, calculate_mode_details, then np.min of an empty array
BalancedLegError(rt, d, modes, j) ==
    IF <<rt[j], rt[j + 1]>> \notin DOMAIN d THEN "KeyError"
    ELSE IF calculate_mode_details(d[<<rt[j], rt[j + 1]>>], modes).error # "none" THEN "KeyError"
    ELSE IF Len(modes) = 0 THEN "ValueError: zero-size array"
    ELSE "none"

\* the segments leg j can get under one weight pair
BalancedLegOptions(rt, d, modes, w, j) ==
    LET distance == d[<<rt[j], rt[j + 1]>>]
        mode_details == calculate_mode_details(distance, modes).mode_details
    IN  {Segment(rt[j], rt[j + 1], distance, mode_details[k]) :
            k \in TopIndices(mode_details, w[1], w[2])}

\* the route_segments lists the first j legs can get under one weight pair
RECURSIVE BalancedSegments(_, _, _, _, _)
BalancedSegments(rt, d, modes, w, j) ==
    IF j = 0 THEN {<<>>}
    ELSE {Append(segs, seg) : segs \in BalancedSegments(rt, d, modes, w, j - 1),
                              seg \in BalancedLegOptions(rt, d, modes, w, j)}

\* tuple(segment["selected_mode"]["mode"] for segment in alternative)
path_signature(alternative) == [j \in 1..Len(alternative) |-> alternative[j].selected_mode.mode]

\* the first occurrences of each signature, in order
Distinct(all_alternatives) ==
    LET keep == {k \in 1..Len(all_alternatives) :
                    \A l \in 1..(k - 1) :
                        path_signature(all_alternatives[l]) # path_signature(all_alternatives[k])}
        RECURSIVE Build(_)
        Build(k) == IF k = 0 THEN <<>>
                    ELSE IF k \in keep THEN Append(Build(k - 1), all_alternatives[k])
                    ELSE Build(k - 1)
    IN  Build(Len(all_alternatives))

FinalWithoutFallback(all_alternatives) == Distinct(all_alternatives)

\* final_alternatives: the distinct ones, or all_alternatives[:3] when fewer than 3
FinalAlternatives(all_alternatives) ==
    IF Len(Distinct(all_alternatives)) < 3
    THEN SubSeq(all_alternatives, 1, IF Len(all_alternatives) < 3 THEN Len(all_alternatives) ELSE 3)
    ELSE Distinct(all_alternatives)

\* every all_alternatives the three passes can build
AllAlternatives(rt, d, modes) ==
    {<<a1, a2, a3>> : a1 \in BalancedSegments(rt, d, modes, weight_combinations[1], Legs(rt)),
                      a2 \in BalancedSegments(rt, d, modes, weight_combinations[2], Legs(rt)),
                      a3 \in BalancedSegments(rt, d, modes, weight_combinations[3], Legs(rt))}

\* the outcomes of calculate_balanced_route
calculate_balanced_route(rt, d, modes) ==
    LET err == FirstError([j \in 1..Legs(rt) |-> BalancedLegError(rt, d, modes, j)])
    IN  IF err # "none" THEN {[error |-> err, alternatives |-> <<>>]}
        ELSE {[error |-> "none", alternatives |-> FinalAlternatives(all)] :
                all \in AllAlternatives(rt, d, modes)}

----------------------------------------------------------------------------
\* modes.py: calculate_route_preferences

RejectsTopsisName(pref) == pref \in {"least_time", "least_cost", "balanced"}

\* the three branches that do not raise
Recognized(pref) == pref \in {"least_time", "least_cost", "balanced_topsis"}

\* the outcomes of calculate_route_preferences
calculate_route_preferences(rt, d, modes, pref) ==
    IF ~Recognized(pref)
    THEN {[error |-> "ValueError: Invalid preference", alternatives |-> <<>>]}
    ELSE IF pref \in {"least_time", "least_cost"}
    THEN {generate_single_route(rt, d, modes, pref)}
    ELSE calculate_balanced_route(rt, d, modes)

----------------------------------------------------------------------------
\* modes.py: summarize_alternatives

\* emoji_dict.get(mode, default), the emoji written as its code point
emoji_dict(mode) ==
    IF mode = "Bus" THEN "U+1F68C"
    ELSE IF mode = "Train" THEN "U+1F682"
    ELSE IF mode = "Walking" THEN "U+1F6B6"
    ELSE IF mode = "Bicycle" THEN "U+1F6B4"
    ELSE "U+1F698"

\* the three running totals after the first k segments
RECURSIVE Totals(_, _)
Totals(route_segments, k) ==
    IF k = 0 THEN [total_distance |-> 0, total_cost |-> 0, total_time |-> 0]
    ELSE LET t == Totals(route_segments, k - 1)
             segment == route_segments[k]
         IN  [total_distance |-> t.total_distance + segment.distance,
              total_cost |-> t.total_cost + segment.selected_mode.cost,
              total_time |-> t.total_time + segment.selected_mode.total_time]

\* path_description after the first k segments: from-node and emoji of each
RECURSIVE PathDescription(_, _)
PathDescription(route_segments, k) ==
    IF k = 0 THEN <<>>
    ELSE PathDescription(route_segments, k - 1)
            \o <<route_segments[k].from, emoji_dict(route_segments[k].selected_mode.mode)>>

\* the dict appended to summaries for alternative alt_idx (from 0); the label
\* f"Alternative {alt_idx + 1}" is held as the pair of its word and number,
\* the joined path as the list of its parts
Summary(alt_idx, route_segments) ==
    LET t == Totals(route_segments, Len(route_segments))
    IN  [Alternative |-> <<"Alternative", alt_idx + 1>>,
         total_distance |-> t.total_distance,
         total_cost |-> t.total_cost,
         total_time |-> t.total_time,
         Path |-> Append(PathDescription(route_segments, Len(route_segments)),
                         route_segments[Len(route_segments)].to)]

\* summarize_alternatives: route_segments[-1] of an alternative without
\* segments raises IndexError, and the exception leaves nothing returned
summarize_alternatives(alternatives) ==
    IF \E k \in 1..Len(alternatives) : Len(alternatives[k]) = 0
    THEN [error |-> "IndexError", summaries |-> <<>>]
    ELSE [error |-> "none",
          summaries |-> [k \in 1..Len(alternatives) |-> Summary(k - 1, alternatives[k])]]

----------------------------------------------------------------------------
\* The run of modes.py: one call of calculate_route_preferences

\* longest catalog
MaxModes == 3

\* longest path, in names
MaxStops == 3

Stops == <<"A", "B", "C", "D", "E">>

\* the paths: a prefix of Stops
Paths == {SubSeq(Stops, 1, k) : k \in 0..MaxStops}

\* the tables for a path: each leg has a length or is absent
Tables(rt) ==
    LET legs == {<<rt[j], rt[j + 1]>> : j \in 1..Legs(rt)}
    IN  UNION {[present -> LegKm] : present \in SUBSET legs}

\* the catalogs: up to MaxModes pool records, none twice, at most one of them
\* lacking a key
Catalogs ==
    UNION {{c \in [1..m -> ModePool] :
                /\ \A k, l \in 1..m : k # l => c[k] # c[l]
                /\ \A k, l \in 1..m : (~HasKeys(c[k]) /\ ~HasKeys(c[l])) => k = l} : m \in 0..MaxModes}

Preferences == {"least_time", "least_cost", "balanced_topsis", "balanced", "invalid_preference"}

InitModes ==
    /\ pc = "start"
    /\ tarjan_home = Home
    /\ relatives = <<>>
    /\ geodesic = EmptyDict
    /\ shortest_route = NoResult
    /\ dp = <<>>
    /\ parent = <<>>
    /\ route \in Paths
    /\ distances \in Tables(route)
    /\ transport_modes \in Catalogs
    /\ preference \in Preferences
    /\ route_alternatives = <<>>
    /\ error = "none"
    /\ leg_distance = 0
    /\ details_result = NoDetails
    /\ distance_query = NoQuery
    /\ topsis_result = NoTopsis
    /\ summary_result = NoSummary

CalculateRoutePreferences ==
    /\ pc = "start"
    /\ \E r \in calculate_route_preferences(route, distances, transport_modes, preference) :
          /\ route_alternatives' = r.alternatives
          /\ error' = r.error
          /\ pc' = IF r.error = "none" THEN "returned" ELSE "raised"
    /\ UNCHANGED <<tarjan_home, relatives, geodesic, distances, shortest_route, dp, parent,
                   route, transport_modes, preference, leg_distance, details_result,
                   distance_query, topsis_result, summary_result>>

\* a direct call of calculate_mode_details on the catalog
CalculateModeDetails ==
    /\ pc = "start"
    /\ \E distance \in LegKm :
          /\ leg_distance' = distance
          /\ details_result' = calculate_mode_details(distance, transport_modes)
    /\ pc' = "details"
    /\ UNCHANGED <<tarjan_home, relatives, geodesic, distances, shortest_route, dp, parent,
                   route, transport_modes, preference, route_alternatives, error,
                   distance_query, topsis_result, summary_result>>

\* one call of topsis_evaluation on the evaluations of a leg, as
\* calculate_balanced_route makes it under the balanced criterion
TopsisEvaluation ==
    /\ pc = "start"
    /\ preference = "balanced_topsis"
    /\ \E distance \in LegKm, w \in 1..Len(weight_combinations) :
          /\ calculate_mode_details(distance, transport_modes).error = "none"
          /\ leg_distance' = distance
          /\ \E r \in topsis_evaluation(calculate_mode_details(distance, transport_modes).mode_details,
                                        weight_combinations[w][1], weight_combinations[w][2]) :
                topsis_result' = r
    /\ pc' = "ranked"
    /\ UNCHANGED <<tarjan_home, relatives, geodesic, distances, shortest_route, dp, parent,
                   route, transport_modes, preference, route_alternatives, error,
                   details_result, distance_query, summary_result>>

\* summarize_alternatives on what calculate_route_preferences returned
SummarizeAlternatives ==
    /\ pc = "returned"
    /\ summary_result' = summarize_alternatives(route_alternatives)
    /\ pc' = IF summarize_alternatives(route_alternatives).error = "none"
             THEN "summarized" ELSE "summary_raised"
    /\ UNCHANGED <<tarjan_home, relatives, geodesic, distances, shortest_route, dp, parent,
                   route, transport_modes, preference, route_alternatives, error,
                   leg_distance, details_result, distance_query, topsis_result>>

\* summarize_alternatives([]), a direct call on an empty list
SummarizeNothing ==
    /\ pc = "start"
    /\ summary_result' = summarize_alternatives(<<>>)
    /\ pc' = "summarized_nothing"
    /\ UNCHANGED <<tarjan_home, relatives, geodesic, distances, shortest_route, dp, parent,
                   route, transport_modes, preference, route_alternatives, error,
                   leg_distance, details_result, distance_query, topsis_result>>

NextModes ==
    \/ CalculateRoutePreferences
    \/ CalculateModeDetails
    \/ TopsisEvaluation
    \/ SummarizeAlternatives
    \/ SummarizeNothing

SpecModes == InitModes /\ [][NextModes]_vars

----------------------------------------------------------------------------
\* The input handlers: inputs_handler.get_user_preferences and
\* RoutePlanner.get_user_preference, then calculate_route_preferences

\* the characters a line typed at the prompt is made of
InputChars == {"1", "2", "3", "4", " "}

\* the lines input() can return: up to two characters
InputLines == {<<>>} \cup {<<a>> : a \in InputChars} \cup {<<a, b>> : a \in InputChars, b \in InputChars}

\* str.strip(): leading and trailing whitespace removed
RECURSIVE strip(_)
strip(line) ==
    IF Len(line) = 0 THEN line
    ELSE IF Head(line) = " " THEN strip(Tail(line))
    ELSE IF line[Len(line)] = " " THEN strip(SubSeq(line, 1, Len(line) - 1))
    ELSE line

\* re.match(r"^[1-3]$", choice) on a stripped line
MatchesOneToThree(choice) == Len(choice) = 1 /\ choice[1] \in {"1", "2", "3"}

\* inputs_handler.get_user_preferences on one typed line: the dict it
\* returns, or InvalidInputError
get_user_preferences(line) ==
    LET choice == strip(line)
    IN  IF ~MatchesOneToThree(choice)
        THEN [error |-> "InvalidInputError", preferences |-> [preference |-> ""]]
        ELSE IF choice = <<"1">> THEN [error |-> "none", preferences |-> [preference |-> "least_time"]]
        ELSE IF choice = <<"2">> THEN [error |-> "none", preferences |-> [preference |-> "least_cost"]]
        ELSE [error |-> "none", preferences |-> [preference |-> "balanced"]]

\* attempts allowed by RoutePlanner.get_user_preference
attempt_limit == 3

\* the dict at main.py:174
ChoiceToPreference(preference_choice) ==
    IF preference_choice = <<"1">> THEN "least_time"
    ELSE IF preference_choice = <<"2">> THEN "least_cost"
    ELSE "balanced_topsis"

\* RoutePlanner.get_user_preference from the given number of failed attempts
\* on: the values it can return over all typed lines, "exit" standing for the
\* exit() after the last allowed attempt
RECURSIVE get_user_preference(_)
get_user_preference(attempts) ==
    {ChoiceToPreference(strip(line)) : line \in {l \in InputLines : MatchesOneToThree(strip(l))}}
        \cup (IF \E line \in InputLines : ~MatchesOneToThree(strip(line))
              THEN (IF attempts + 1 = attempt_limit THEN {"exit"}
                    ELSE get_user_preference(attempts + 1))
              ELSE {})

InitPlanner ==
    /\ pc = "prompt"
    /\ tarjan_home = Home
    /\ relatives = <<>>
    /\ geodesic = EmptyDict
    /\ shortest_route = NoResult
    /\ dp = <<>>
    /\ parent = <<>>
    /\ route \in Paths
    /\ distances \in Tables(route)
    /\ transport_modes \in Catalogs
    /\ preference = ""
    /\ route_alternatives = <<>>
    /\ error = "none"
    /\ leg_distance = 0
    /\ details_result = NoDetails
    /\ distance_query = NoQuery
    /\ topsis_result = NoTopsis
    /\ summary_result = NoSummary

\* inputs_handler.get_user_preferences answers the prompt
GetUserPreferences ==
    /\ pc = "prompt"
    /\ \E line \in InputLines :
          LET r == get_user_preferences(line)
          IN  /\ preference' = r.preferences.preference
              /\ error' = r.error
              /\ pc' = IF r.error = "none" THEN "start" ELSE "input_raised"
    /\ UNCHANGED <<tarjan_home, relatives, geodesic, distances, shortest_route, dp, parent,
                   route, transport_modes, route_alternatives, leg_distance, details_result,
                   distance_query, topsis_result, summary_result>>

\* RoutePlanner.get_user_preference answers the prompt
GetUserPreference ==
    /\ pc = "prompt"
    /\ \E r \in get_user_preference(0) :
          /\ preference' = IF r = "exit" THEN preference ELSE r
          /\ pc' = IF r = "exit" THEN "exited" ELSE "start"
    /\ UNCHANGED <<tarjan_home, relatives, geodesic, distances, shortest_route, dp, parent,
                   route, transport_modes, route_alternatives, error, leg_distance,
                   details_result, distance_query, topsis_result, summary_result>>

NextPlanner == GetUserPreferences \/ GetUserPreference \/ CalculateRoutePreferences

SpecPlanner == InitPlanner /\ [][NextPlanner]_vars

----------------------------------------------------------------------------
\* The run of routes.py: build the table, then solve

InitRoutes ==
    /\ pc = "start"
    /\ tarjan_home = Home
    /\ \E n \in 0..MaxDest :
          /\ relatives = [i \in 1..n |-> Relative(i)]
          /\ \E km \in [PointPairs(n) -> KmValues], failing \in FailSets(n) :
                geodesic = [pp \in PointPairs(n) \cup SamePoint(n) |->
                               IF pp \in failing THEN Fail
                               ELSE IF pp[1] = pp[2] THEN 0 ELSE km[pp]]
    /\ distances = EmptyDict
    /\ shortest_route = NoResult
    /\ dp = <<>>
    /\ parent = <<>>
    /\ route = <<>>
    /\ transport_modes = <<>>
    /\ preference = ""
    /\ route_alternatives = <<>>
    /\ error = "none"
    /\ leg_distance = 0
    /\ details_result = NoDetails
    /\ distance_query = NoQuery
    /\ topsis_result = NoTopsis
    /\ summary_result = NoSummary

CalculateSymmetricDistances ==
    /\ pc = "start"
    /\ distances' = calculate_symmetric_distances(relatives, tarjan_home)
    /\ pc' = "distances"
    /\ UNCHANGED <<tarjan_home, relatives, geodesic, shortest_route, dp, parent,
                   route, transport_modes, preference, route_alternatives, error,
                   leg_distance, details_result,
                   distance_query, topsis_result, summary_result>>

FindShortestRoute ==
    /\ pc = "distances"
    /\ LET t == RouteTables(relatives, distances, tarjan_home.name)
       IN  /\ dp' = t.dp
           /\ parent' = t.parent
           /\ shortest_route' = find_shortest_route(relatives, distances, tarjan_home.name, t)
    /\ pc' = "routed"
    /\ UNCHANGED <<tarjan_home, relatives, geodesic, distances,
                   route, transport_modes, preference, route_alternatives, error,
                   leg_distance, details_result,
                   distance_query, topsis_result, summary_result>>

\* a direct call of calculate_distance on the coordinates of two locations
CalculateDistance ==
    /\ pc = "start"
    /\ \E a, b \in {tarjan_home} \cup {relatives[i] : i \in 1..Len(relatives)} :
          distance_query' = [point1 |-> Point(a), point2 |-> Point(b),
                             distance |-> calculate_distance(Point(a), Point(b))]
    /\ pc' = "queried"
    /\ UNCHANGED <<tarjan_home, relatives, geodesic, distances, shortest_route, dp, parent,
                   route, transport_modes, preference, route_alternatives, error,
                   leg_distance, details_result, topsis_result, summary_result>>

NextRoutes == CalculateSymmetricDistances \/ FindShortestRoute \/ CalculateDistance

SpecRoutes == InitRoutes /\ [][NextRoutes]_vars

----------------------------------------------------------------------------
\* Properties of routes.py (checked under SpecRoutes)

NameOf(rels) == [i \in 1..Len(rels) |-> rels[i].name]

\* the orders in which n destinations can be visited
VisitingOrders(n) == {p \in [1..n -> 1..n] : \A i, j \in 1..n : i # j => p[i] # p[j]}

\* length of the open path origin, names[p[1]], ..., names[p[k]]
RECURSIVE OpenPathLength(_, _, _, _, _)
OpenPathLength(d, home_name, names, p, k) ==
    IF k = 0 THEN 0
    ELSE Add(OpenPathLength(d, home_name, names, p, k - 1),
             d[<<IF k = 1 THEN home_name ELSE names[p[k - 1]], names[p[k]]>>])

\* the least open-path length over all visiting orders
MinOpenPath(d, home_name, names) ==
    LET lengths == {OpenPathLength(d, home_name, names, p, Len(names)) :
                        p \in VisitingOrders(Len(names))}
    IN  CHOOSE x \in lengths : \A y \in lengths : ~Less(y, x)

AllFinite(d) == \A k \in DOMAIN d : d[k] # Inf

\* C1: for every number of destinations from 0 up to the bound (0 and 1
\* included) the reported distance is the minimum over all visiting orders of
\* the open-path length, with no return leg.
C1_DistanceIsOpenPathMinimum ==
    pc = "routed" =>
        shortest_route.distance = MinOpenPath(distances, tarjan_home.name, NameOf(relatives))

\* C2: with n >= 1 destinations and finite distances the route has n + 1
\* elements, starts with the origin and holds every destination exactly once.
C2_RouteIsOriginThenEachDestinationOnce ==
    (pc = "routed" /\ Len(relatives) >= 1 /\ AllFinite(distances)) =>
        /\ Len(shortest_route.route) = Len(relatives) + 1
        /\ shortest_route.route[1] = tarjan_home.name
        /\ \A i \in 1..Len(relatives) :
              Cardinality({k \in 1..Len(shortest_route.route) :
                              shortest_route.route[k] = relatives[i].name}) = 1

C2_Witness ==
    /\ pc = "routed"
    /\ Len(relatives) = 3
    /\ AllFinite(distances)
    /\ shortest_route.route # <<"Home", "R1", "R2", "R3">>

\* C7: after calculate_symmetric_distances the table holds an entry for every
\* ordered pair of distinct locations, the two entries of a pair are equal,
\* and there is no other key.
C7_TableIsCompleteAndSymmetric ==
    pc \in {"distances", "routed"} =>
        LET names == {tarjan_home.name} \cup {relatives[i].name : i \in 1..Len(relatives)}
        IN  /\ DOMAIN distances = {<<a, b>> : a \in names, b \in names} \ {<<a, a>> : a \in names}
            /\ \A k \in DOMAIN distances : distances[k] = distances[<<k[2], k[1]>>]

C7_Witness ==
    /\ pc = "distances"
    /\ Len(relatives) = 3
    /\ Cardinality(DOMAIN distances) = 12
    /\ \E k \in DOMAIN distances : distances[k] = Inf
    /\ \E k \in DOMAIN distances : distances[k] = 2

\* the locations of a run: the origin and the destinations
Locations == {tarjan_home} \cup {relatives[i] : i \in 1..Len(relatives)}

\* C11: with exactly one destination the route is <<origin, destination>> and
\* the distance is twice the one-way origin-destination distance (+infinity
\* when the one-way distance is +infinity).
C11_SingleDestinationCountsBothWays ==
    (pc = "routed" /\ Len(relatives) = 1) =>
        LET one_way == calculate_distance(Point(tarjan_home), Point(relatives[1]))
        IN  /\ shortest_route.route = <<tarjan_home.name, relatives[1].name>>
            /\ one_way # Inf => shortest_route.distance = 2 * one_way
            /\ one_way = Inf => shortest_route.distance = Inf

C11_Witness ==
    /\ pc = "routed"
    /\ Len(relatives) = 1
    /\ distances[<<"Home", "R1">>] = 2
    /\ shortest_route.distance = 4
    /\ Len(shortest_route.route) = 2

\* C12: with zero destinations the route is empty (the origin is not in it)
\* and the distance is 0; the table handed in has no entry that could be read.
C12_NoDestinationsGiveEmptyRoute ==
    (pc = "routed" /\ Len(relatives) = 0) =>
        /\ shortest_route.route = <<>>
        /\ shortest_route.distance = 0
        /\ DOMAIN distances = {}

C12_Witness ==
    /\ pc = "routed"
    /\ Len(relatives) = 0
    /\ shortest_route.route = <<>>
    /\ dp = <<>>

\* C14 as stated: for every location a, calculate_distance(a, a) is 0.
C14_DistanceToItselfIsZero ==
    (pc = "queried" /\ distance_query.point1 = distance_query.point2) =>
        distance_query.distance = 0

\* C14 amended: for every location a whose coordinates the primitive accepts,
\* calculate_distance(a, a) is 0; for a location whose coordinates make the
\* primitive raise it is +infinity.
C14_DistanceToItselfIsZeroOrUnreachable ==
    (pc = "queried" /\ distance_query.point1 = distance_query.point2) =>
        LET p == distance_query.point1
        IN  /\ geodesic[<<p, p>>] # Fail => distance_query.distance = 0
            /\ geodesic[<<p, p>>] = Fail => distance_query.distance = Inf

C14_Witness ==
    /\ pc = "queried"
    /\ Len(relatives) = 2
    /\ distance_query.point1 = Point(relatives[2])
    /\ distance_query.point2 = Point(relatives[2])
    /\ distance_query.distance = 0
    /\ geodesic[<<Point(relatives[1]), Point(relatives[1])>>] = Fail

\* the destination indices (from 0) of a mask
MaskMembers(mask, n) == {i \in 0..(n - 1) : Bit(mask, i)}

\* the orders in which the destinations of S can be visited ending at v
OrdersEndingAt(S, v) ==
    {p \in [1..Cardinality(S) -> S] :
        /\ \A i, j \in 1..Cardinality(S) : i # j => p[i] # p[j]
        /\ p[Cardinality(S)] = v}

\* length of the path origin, names[p[1] + 1], ..., names[p[k] + 1]
RECURSIVE PathLength(_, _, _, _, _)
PathLength(d, home_name, names, p, k) ==
    IF k = 0 THEN 0
    ELSE Add(PathLength(d, home_name, names, p, k - 1),
             d[<<IF k = 1 THEN home_name ELSE names[p[k - 1] + 1], names[p[k] + 1]>>])

\* the least length of a path from the origin through exactly S ending at v
MinPathEndingAt(d, home_name, names, S, v) ==
    LET lengths == {PathLength(d, home_name, names, p, Cardinality(S)) : p \in OrdersEndingAt(S, v)}
    IN  CHOOSE x \in lengths : \A y \in lengths : ~Less(y, x)

\* C17: with n >= 2 destinations and finite distances, after the DP loops
\* dp[v][S] is the least length of a path from the origin that visits exactly
\* the destinations of S and ends at v, for every v in S; parent[v][S] is -1
\* exactly when S = {v}, and otherwise a u in S \ {v} with
\* dp[v][S] = dp[u][S \ {v}] + distance(u, v).
C17_TableHoldsSubsetMinima ==
    (pc = "routed" /\ Len(relatives) >= 2 /\ AllFinite(distances)) =>
        LET names == NameOf(relatives)
            n == Len(names)
        IN  \A mask \in 1..(Pow2(n) - 1) : \A v \in MaskMembers(mask, n) :
                /\ dp[v][mask] = MinPathEndingAt(distances, tarjan_home.name, names,
                                                 MaskMembers(mask, n), v)
                /\ (parent[v][mask] = -1) <=> (mask = Pow2(v))
                /\ mask # Pow2(v) =>
                      LET u == parent[v][mask]
                      IN  /\ u \in MaskMembers(mask, n) \ {v}
                          /\ dp[v][mask] = dp[u][mask - Pow2(v)]
                                             + distances[<<names[u + 1], names[v + 1]>>]

C17_Witness ==
    /\ pc = "routed"
    /\ Len(relatives) = 3
    /\ AllFinite(distances)
    /\ dp[2][7] = 3
    /\ dp[0][7] = 4
    /\ parent[0][7] = 1
    /\ parent[2][4] = -1

\* C18: with n >= 2 destinations and finite distances the reported distance
\* is the sum of the table distances between consecutive elements of the
\* returned route; the origin stands first and nowhere else, so no leg back
\* to the origin is counted.
C18_DistanceIsSumOfRouteLegs ==
    (pc = "routed" /\ Len(relatives) >= 2 /\ AllFinite(distances)) =>
        LET r == shortest_route.route
            RECURSIVE LegSum(_)
            LegSum(k) == IF k <= 1 THEN 0 ELSE LegSum(k - 1) + distances[<<r[k - 1], r[k]>>]
        IN  /\ Len(r) >= 2
            /\ \A k \in 1..Len(r) : (r[k] = tarjan_home.name) <=> (k = 1)
            /\ shortest_route.distance = LegSum(Len(r))

C18_Witness ==
    /\ pc = "routed"
    /\ Len(relatives) = 3
    /\ AllFinite(distances)
    /\ shortest_route.route = <<"Home", "R2", "R1", "R3">>
    /\ shortest_route.distance = 3
    /\ distances[<<"R3", "Home">>] = 2

\* C19: with n >= 2 destinations and some pair recorded as +infinity the
\* route still starts at the origin and holds every destination exactly once,
\* also when every complete path has infinite length.
C19_UnreachablePairsKeepTheRouteComplete ==
    (pc = "routed" /\ Len(relatives) >= 2 /\ ~AllFinite(distances)) =>
        /\ Len(shortest_route.route) = Len(relatives) + 1
        /\ shortest_route.route[1] = tarjan_home.name
        /\ \A i \in 1..Len(relatives) :
              Cardinality({k \in 1..Len(shortest_route.route) :
                              shortest_route.route[k] = relatives[i].name}) = 1

\* C20: when the primitive fails for some pairs, calculate_symmetric_distances
\* still returns the complete table: +infinity in both directions for each
\* failing pair, and for every other pair the value the primitive returned.
C20_FailingPairsAreRecordedAsInfinity ==
    pc \in {"distances", "routed"} =>
        \A a \in Locations : \A b \in Locations \ {a} :
            LET km == geodesic[PairKey(Point(a), Point(b))]
            IN  /\ <<a.name, b.name>> \in DOMAIN distances
                /\ <<b.name, a.name>> \in DOMAIN distances
                /\ km = Fail => (/\ distances[<<a.name, b.name>>] = Inf
                                 /\ distances[<<b.name, a.name>>] = Inf)
                /\ km # Fail => (/\ distances[<<a.name, b.name>>] = km
                                 /\ distances[<<b.name, a.name>>] = km)

C20_Witness ==
    /\ pc = "distances"
    /\ Len(relatives) = 3
    /\ geodesic[<<<<1, 1>>, <<3, 3>>>>] = Fail
    /\ distances[<<"R3", "R1">>] = Inf
    /\ Cardinality({k \in DOMAIN distances : distances[k] = Inf}) = 2
    /\ distances[<<"R2", "Home">>] = 2
    /\ distances[<<"R2", "R3">>] = 1

----------------------------------------------------------------------------
\* Properties of modes.py (checked under SpecModes)

Called == pc \in {"returned", "raised"}

LacksField(mode) ==
    \E f \in {"speed_kmh", "cost_per_km", "transfer_time_min"} : f \notin DOMAIN mode

WellFormed(modes) == \A k \in 1..Len(modes) : ~LacksField(modes[k])

AllLegsInTable == \A j \in 1..Legs(route) : <<route[j], route[j + 1]>> \in DOMAIN distances

\* the evaluations of leg j of the path
LegEvaluations(j) ==
    calculate_mode_details(distances[<<route[j], route[j + 1]>>], transport_modes).mode_details

\* C3: a successful call returns at least 1 and at most 3 itineraries.
C3_BetweenOneAndThreeItineraries ==
    pc = "returned" => (Len(route_alternatives) >= 1 /\ Len(route_alternatives) <= 3)

C3_Witness ==
    /\ pc = "returned"
    /\ Len(route_alternatives) = 3
    /\ Legs(route) = 2
    /\ preference = "least_cost"

\* the primary and secondary sort key of an evaluation under a criterion
Primary(e, pref) == IF pref = "least_time" THEN e.total_time ELSE e.cost

Secondary(e, pref) == IF pref = "least_time" THEN e.cost ELSE e.total_time

KeyBelow(x, y, pref) ==
    \/ Primary(x, pref) < Primary(y, pref)
    \/ (Primary(x, pref) = Primary(y, pref) /\ Secondary(x, pref) < Secondary(y, pref))

\* e can stand at position r (from 0) of evals sorted ascending by the key:
\* at most r evaluations have a smaller key, more than r a key not larger
AtSortedPosition(e, evals, r, pref) ==
    /\ \E k \in 1..Len(evals) : evals[k] = e
    /\ Cardinality({k \in 1..Len(evals) : KeyBelow(evals[k], e, pref)}) <= r
    /\ Cardinality({k \in 1..Len(evals) : ~KeyBelow(e, evals[k], pref)}) >= r + 1

\* C4: under least_time (least_cost), for i in {0,1,2} and every leg, the mode
\* of the leg in alternative i is the element at position min(i, m-1) of the
\* leg's evaluations sorted by (total_time, cost) (by (cost, total_time)),
\* chosen per leg; alternative 0 has the least primary key on every leg.
C4_PerLegRankSelection ==
    (pc = "returned" /\ preference \in {"least_time", "least_cost"}) =>
        /\ Len(route_alternatives) = 3
        /\ \A i \in 0..2 : \A j \in 1..Legs(route) :
              LET evals == LegEvaluations(j)
                  m == Len(evals)
              IN  /\ Len(route_alternatives[i + 1]) = Legs(route)
                  /\ AtSortedPosition(route_alternatives[i + 1][j].selected_mode, evals,
                                      IF i < m - 1 THEN i ELSE m - 1, preference)
        /\ \A j \in 1..Legs(route) : \A k \in 1..Len(LegEvaluations(j)) :
              Primary(route_alternatives[1][j].selected_mode, preference)
                  <= Primary(LegEvaluations(j)[k], preference)

C4_Witness ==
    /\ pc = "returned"
    /\ preference = "least_time"
    /\ Legs(route) = 2
    /\ Len(transport_modes) = 2
    /\ route_alternatives[1] # route_alternatives[2]
    /\ route_alternatives[2] = route_alternatives[3]
    /\ route_alternatives[1][1].selected_mode.mode = "Bus"

Signatures == {path_signature(route_alternatives[k]) : k \in 1..Len(route_alternatives)}

InvalidPreference == "ValueError: Invalid preference"

\* C6 as stated: the accepted criteria are exactly least_time, least_cost and
\* balanced; every other value fails with the invalid-criterion error.
C6_AcceptsBalanced ==
    Called =>
        /\ (error = InvalidPreference) <=> (preference \notin {"least_time", "least_cost", "balanced"})
        /\ error = InvalidPreference => route_alternatives = <<>>

\* C6 amended: the accepted criteria are exactly least_time, least_cost and
\* balanced_topsis: each of them returns alternatives (on a table holding
\* every leg and a well-formed, non-empty catalog), and every other value,
\* balanced included, fails with the invalid-preference error and returns none.
C6_AcceptsBalancedTopsis ==
    Called =>
        /\ (error = InvalidPreference) <=>
              (preference \notin {"least_time", "least_cost", "balanced_topsis"})
        /\ error = InvalidPreference => (pc = "raised" /\ route_alternatives = <<>>)
        /\ (/\ preference \in {"least_time", "least_cost", "balanced_topsis"}
            /\ AllLegsInTable
            /\ WellFormed(transport_modes)
            /\ Len(transport_modes) >= 1)
              => (pc = "returned" /\ error = "none" /\ Len(route_alternatives) = 3)

C6_Witness ==
    /\ pc = "raised"
    /\ preference = "balanced"
    /\ error = InvalidPreference
    /\ AllLegsInTable
    /\ WellFormed(transport_modes)
    /\ Len(transport_modes) = 2
    /\ Legs(route) = 2

\* C8: with a catalog record lacking speed_kmh, cost_per_km or
\* transfer_time_min, calculate_mode_details raises KeyError and returns no
\* evaluation at all; a calculate_route_preferences call that evaluates a leg
\* (recognized criterion, path with a leg) fails as a whole.
C8_MissingFieldAbortsTheCall ==
    LET bad == ~WellFormed(transport_modes)
    IN  /\ (pc = "details" /\ bad) =>
              (details_result.error = "KeyError" /\ details_result.mode_details = <<>>)
        /\ (Called /\ bad /\ Legs(route) >= 1
                   /\ preference \in {"least_time", "least_cost", "balanced_topsis"}) =>
              (pc = "raised" /\ error = "KeyError" /\ route_alternatives = <<>>)

C8_Witness ==
    /\ pc = "raised"
    /\ error = "KeyError"
    /\ preference = "least_time"
    /\ Legs(route) = 2
    /\ AllLegsInTable
    /\ Len(transport_modes) = 3
    /\ ~LacksField(transport_modes[1])
    /\ ~LacksField(transport_modes[2])
    /\ LacksField(transport_modes[3])

\* C9: for a well-formed catalog calculate_mode_details returns one evaluation
\* per mode, in catalog order, with travel_time = distance / speed_kmh * 60,
\* total_time = travel_time + transfer_time and cost = distance * cost_per_km.
C9_OneEvaluationPerModeInOrder ==
    (pc = "details" /\ WellFormed(transport_modes)) =>
        /\ details_result.error = "none"
        /\ Len(details_result.mode_details) = Len(transport_modes)
        /\ \A k \in 1..Len(transport_modes) :
              LET e == details_result.mode_details[k]
                  mode == transport_modes[k]
              IN  /\ e.mode = mode.mode
                  /\ e.travel_time * mode.speed_kmh = leg_distance * 60
                  /\ e.transfer_time = mode.transfer_time_min
                  /\ e.total_time = e.travel_time + mode.transfer_time_min
                  /\ e.cost = leg_distance * mode.cost_per_km

C9_Witness ==
    /\ pc = "details"
    /\ leg_distance = 40
    /\ transport_modes = <<Train, Walking, Bus>>
    /\ Len(details_result.mode_details) = 3

\* leg j of itinerary alt spans path[j], path[j+1] with the table's distance
\* and a mode among the leg's evaluations
LegMatchesPath(alt, j) ==
    /\ alt[j].from = route[j]
    /\ alt[j].to = route[j + 1]
    /\ alt[j].distance = distances[<<route[j], route[j + 1]>>]
    /\ \E k \in 1..Len(LegEvaluations(j)) : alt[j].selected_mode = LegEvaluations(j)[k]

\* C10 as stated: every returned itinerary for a path of k names has exactly
\* k-1 legs, leg j spanning path[j], path[j+1].
C10_ExactlyKMinusOneLegs ==
    pc = "returned" =>
        \A a \in 1..Len(route_alternatives) :
            /\ Len(route_alternatives[a]) = Len(route) - 1
            /\ \A j \in 1..Len(route_alternatives[a]) : LegMatchesPath(route_alternatives[a], j)

\* C10 amended: every returned itinerary for a path of k >= 1 names has
\* exactly k-1 legs and for the empty path has no leg; leg j goes from path[j]
\* to path[j+1] with the table's distance and one of the leg's evaluations.
C10_LegsFollowThePath ==
    pc = "returned" =>
        \A a \in 1..Len(route_alternatives) :
            /\ Len(route) >= 1 => Len(route_alternatives[a]) = Len(route) - 1
            /\ Len(route) = 0 => Len(route_alternatives[a]) = 0
            /\ \A j \in 1..Len(route_alternatives[a]) : LegMatchesPath(route_alternatives[a], j)

C10_Witness ==
    /\ pc = "returned"
    /\ preference = "balanced_topsis"
    /\ Len(route) = 3
    /\ Len(route_alternatives[3]) = 2
    /\ route_alternatives[3][2].from = "B"
    /\ route_alternatives[3][2].selected_mode.mode = "Train"

\* C13 as stated: for every list of alternatives calculate_route_preferences
\* returns, summarize_alternatives returns one summary per alternative, in
\* order, labelled Alternative k, with the sums of the legs' distance, cost and
\* time; an empty list gives an empty list of summaries.
C13_OneSummaryPerAlternative ==
    /\ pc = "summarized_nothing" => summary_result = [error |-> "none", summaries |-> <<>>]
    /\ pc \in {"summarized", "summary_raised"} =>
          /\ summary_result.error = "none"
          /\ Len(summary_result.summaries) = Len(route_alternatives)
          /\ \A k \in 1..Len(route_alternatives) :
                LET alt == route_alternatives[k]
                    summary == summary_result.summaries[k]
                    RECURSIVE Sum(_, _)
                    Sum(f, j) == IF j = 0 THEN 0 ELSE Sum(f, j - 1) + f[j]
                IN  /\ summary.Alternative = <<"Alternative", k>>
                    /\ summary.total_distance = Sum([j \in 1..Len(alt) |-> alt[j].distance], Len(alt))
                    /\ summary.total_cost = Sum([j \in 1..Len(alt) |-> alt[j].selected_mode.cost], Len(alt))
                    /\ summary.total_time = Sum([j \in 1..Len(alt) |-> alt[j].selected_mode.total_time], Len(alt))

RecognizedCriterion == preference \in {"least_time", "least_cost", "balanced_topsis"}

\* the first leg of the path that has no entry in the table (0 when none)
FirstMissingLeg ==
    IF AllLegsInTable THEN 0
    ELSE CHOOSE j \in 1..Legs(route) :
            /\ <<route[j], route[j + 1]>> \notin DOMAIN distances
            /\ \A l \in 1..(j - 1) : <<route[l], route[l + 1]>> \in DOMAIN distances

\* C15 as stated: when some leg of the path has no table entry, the call fails
\* with the missing-distance error (a KeyError) for every recognized criterion
\* and returns no itinerary.
C15_MissingLegRaisesKeyError ==
    (Called /\ RecognizedCriterion /\ ~AllLegsInTable) =>
        (pc = "raised" /\ error = "KeyError" /\ route_alternatives = <<>>)

\* C15 amended: when some leg of the path has no table entry, the call fails
\* for every recognized criterion and returns no itinerary; the error is the
\* KeyError of the table lookup when the first such leg is the path's first
\* leg or the catalog is non-empty and well-formed, and otherwise the error of
\* the path's first leg: KeyError for a record lacking a field, and for an
\* empty catalog IndexError (least_time, least_cost) or ValueError (balanced).
C15_MissingLegFailsTheCall ==
    (Called /\ RecognizedCriterion /\ ~AllLegsInTable) =>
        /\ pc = "raised"
        /\ route_alternatives = <<>>
        /\ (FirstMissingLeg = 1 \/ (WellFormed(transport_modes) /\ Len(transport_modes) >= 1))
              => error = "KeyError"
        /\ (FirstMissingLeg > 1 /\ ~WellFormed(transport_modes)) => error = "KeyError"
        /\ (FirstMissingLeg > 1 /\ Len(transport_modes) = 0) =>
              error = (IF preference = "balanced_topsis" THEN "ValueError: zero-size array"
                       ELSE "IndexError")

C15_Witness ==
    /\ pc = "raised"
    /\ preference = "balanced_topsis"
    /\ Len(route) = 3
    /\ DOMAIN distances = {<<"A", "B">>}
    /\ transport_modes = <<Bus, Train>>
    /\ error = "KeyError"
    /\ route_alternatives = <<>>

\* some candidate has a non-zero value in the column
NonZeroColumn(column) == \E k \in 1..Len(column) : column[k] # 0

\* neither the times nor the costs of the candidates are all 0
NonDegenerate(mode_details) ==
    /\ NonZeroColumn([k \in 1..Len(mode_details) |-> mode_details[k].total_time])
    /\ NonZeroColumn([k \in 1..Len(mode_details) |-> mode_details[k].cost])

C21_HandlerPreferencesAreAccepted ==
    Called => error # InvalidPreference

====
